---- MODULE Spec2Model ----
(***************************************************************************)
(* Model of the recipe REST API: the owner-scoped view sets of            *)
(* recipe/views.py, the serializers of recipe/serializers.py and the URL  *)
(* table of recipe/urls.py, over the Recipe / Tag / Ingredient tables.    *)
(* One action per HTTP request; a request is handled as the framework's   *)
(* dispatch does: URL resolution, authentication and permission check,    *)
(* object look-up in get_queryset(), serializer validation, save.         *)
(***************************************************************************)
EXTENDS Integers, Sequences, FiniteSets, TLC

VARIABLES
    recipes,        \* Recipe table: id -> row (with its tags / ingredients link sets)
    tags,           \* Tag table: id -> [user, name]
    ingredients,    \* Ingredient table: id -> [user, name]
    nextRecipeId,   \* the Recipe table's id sequence
    req,            \* the request handled last
    resp,           \* its response
    accessed,       \* whether handling it reached the repository (a queryset or a save)
    inflight,       \* per request handler: the write it has validated and not yet saved
    nops,           \* number of requests handled so far
    storage,        \* the files of the media storage
    cmd,            \* the wait_for_db command: its position, db_up and the checks made
    accounts        \* the user manager: the stored emails and the last create_user call

api == <<recipes, tags, ingredients, nextRecipeId, req, resp, accessed, inflight, nops, storage>>
vars == <<api, cmd, accounts>>

\* Number of requests in a run.
MaxOps == 2

----------------------------------------------------------------------------
(* Identities *)

U1 == "user@example.com"
U2 == "user2@example.com"
Users == {U1, U2}
AnonymousUser == "AnonymousUser"
Identities == Users \cup {AnonymousUser}

----------------------------------------------------------------------------
(* Helpers on tables and orderings *)

Remove(table, id) == [i \in DOMAIN table \ {id} |-> table[i]]

SetMax(S) == CHOOSE x \in S : \A y \in S : y <= x

RECURSIVE OrderByIdDesc(_)
OrderByIdDesc(S) ==
    IF S = {} THEN <<>>
    ELSE LET m == SetMax(S) IN <<m>> \o OrderByIdDesc(S \ {m})

\* Names in ascending order of the database's string comparison.
NameOrder == <<"Dessert", "Vegan", "Vegetarian", "dessert", "indian", "lunch", "vegan">>
NameRank(n) == CHOOSE i \in 1..Len(NameOrder) : NameOrder[i] = n

Orderings(S) ==
    {q \in [1..Cardinality(S) -> S] : \A i, j \in 1..Cardinality(S) : i # j => q[i] # q[j]}

\* order_by("-name"): rows of equal name come in an order the database picks.
OrderByNameDesc(table, S) ==
    {q \in Orderings(S) :
        \A i, j \in 1..Len(q) :
            i < j => NameRank(table[q[i]].name) >= NameRank(table[q[j]].name)}

\* The names of a payload's nested list, and whether each item has one.
Names(list) == {list[i].name : i \in {j \in 1..Len(list) : "name" \in DOMAIN list[j]}}
WellFormed(list) == \A i \in 1..Len(list) : "name" \in DOMAIN list[i]

----------------------------------------------------------------------------
(* recipe/serializers.py *)

RecipeSerializer_fields == {"id", "title", "time_minutes", "price", "link"}
RecipeSerializer_read_only_fields == {"id"}
RecipeDetailSerializer_fields == RecipeSerializer_fields \cup {"description"}
RecipeDetailSerializer_read_only_fields == RecipeSerializer_read_only_fields

\* Recipe.image of a recipe without an image.
NoImage == ""

\* Model fields of Recipe that have no default and may not be blank.
RequiredFields == {"title", "time_minutes", "price"}

\* Serializer output: the declared fields of the row.
RecipeSerializer(r) == [k \in RecipeSerializer_fields |-> r[k]]
RecipeDetailSerializer(r) == [k \in RecipeDetailSerializer_fields |-> r[k]]

\* Variant: "user" accepted as a writable field.
validated_data_user(p) ==
    LET writable == (RecipeDetailSerializer_fields \cup {"user"})
                        \ RecipeDetailSerializer_read_only_fields
    IN  [k \in (DOMAIN p) \cap writable |-> p[k]]

\* Serializer input: only declared, writable fields are read from the payload;
\* every other key of the payload is ignored.
validated_data(p) ==
    LET writable == RecipeDetailSerializer_fields \ RecipeDetailSerializer_read_only_fields
    IN  [k \in (DOMAIN p) \cap writable |-> p[k]]

\* A required field may be absent only in a partial update.
is_valid(p, partial) == partial \/ RequiredFields \subseteq DOMAIN p

\* ModelSerializer.create: one row from the validated data and the save() arguments.
Serializer_create(id, u, v) ==
    [id |-> id, user |-> u,
     title |-> v.title, time_minutes |-> v.time_minutes, price |-> v.price,
     link |-> IF "link" \in DOMAIN v THEN v.link ELSE "",
     description |-> IF "description" \in DOMAIN v THEN v.description ELSE "",
     image |-> NoImage, tags |-> {}, ingredients |-> {}]

\* Variant: an optional field absent from the data is reset to blank.
Serializer_update_blank(r, v) ==
    [k \in DOMAIN r |->
        IF k \in DOMAIN v THEN v[k]
        ELSE IF k \in {"link", "description"} THEN "" ELSE r[k]]

\* ModelSerializer.update: sets the validated attributes on the row.
Serializer_update(r, v) == [k \in DOMAIN r |-> IF k \in DOMAIN v THEN v[k] ELSE r[k]]

TagSerializer_fields == {"id", "name"}
TagSerializer(t, id) == [id |-> id, name |-> t.name]

----------------------------------------------------------------------------
(* recipe/views.py *)

\* permission_classes = [IsAuthenticated]
IsAuthenticated(u) == u \in Users

\* Variant: no owner filter.
get_queryset_unscoped(u) == OrderByIdDesc(DOMAIN recipes)

\* RecipeViewSet.get_queryset: the requester's recipes, newest id first.
get_queryset(u) == OrderByIdDesc({i \in DOMAIN recipes : recipes[i].user = u})

\* TagViewSet.get_queryset: the requester's tags by descending name.
Tag_get_queryset(u) == OrderByNameDesc(tags, {i \in DOMAIN tags : tags[i].user = u})

InQuery(q, pk) == \E i \in 1..Len(q) : q[i] = pk

\* RecipeViewSet.get_serializer_class
get_serializer_class(action) == IF action = "list" THEN "RecipeSerializer" ELSE "RecipeDetailSerializer"

Serialize(action, r) ==
    IF get_serializer_class(action) = "RecipeSerializer"
    THEN RecipeSerializer(r) ELSE RecipeDetailSerializer(r)

Request(action, u, pk, data) == [action |-> action, user |-> u, pk |-> pk, data |-> data]
Response(status, data) == [status |-> status, data |-> data]

NoData == <<>>

Reply(r, status, data, reached) ==
    /\ nops < MaxOps
    /\ req' = r
    /\ resp' = Response(status, data)
    /\ accessed' = reached
    /\ nops' = nops + 1
    /\ UNCHANGED <<storage, cmd, accounts>>

\* The response of a request handled in one piece.
Answer(r, status, data, reached) ==
    /\ Reply(r, status, data, reached)
    /\ UNCHANGED inflight

Unauthorized(r) ==
    /\ Answer(r, 401, "Authentication credentials were not provided.", FALSE)
    /\ UNCHANGED <<recipes, tags, ingredients, nextRecipeId>>

NotFound(r) ==
    /\ Answer(r, 404, "Not found.", TRUE)
    /\ UNCHANGED <<recipes, tags, ingredients, nextRecipeId>>

BadRequest(r, reached) ==
    /\ Answer(r, 400, "This field is required.", reached)
    /\ UNCHANGED <<recipes, tags, ingredients, nextRecipeId>>

\* GET recipe/ : RecipeViewSet.list
RecipeList(u) ==
    LET r == Request("list", u, 0, NoData) IN
    IF ~IsAuthenticated(u) THEN Unauthorized(r)
    ELSE LET q == get_queryset(u) IN
         /\ Answer(r, 200, [i \in 1..Len(q) |-> Serialize("list", recipes[q[i]])], TRUE)
         /\ UNCHANGED <<recipes, tags, ingredients, nextRecipeId>>

\* RecipeViewSet.perform_create: serializer.save(user=self.request.user)
perform_create(u, p) ==
    /\ recipes' = recipes @@ (nextRecipeId :> Serializer_create(nextRecipeId, u, validated_data(p)))
    /\ nextRecipeId' = nextRecipeId + 1
    /\ UNCHANGED <<tags, ingredients>>

\* POST recipe/ : RecipeViewSet.create
RecipeCreate(u, p) ==
    LET r == Request("create", u, 0, p) IN
    IF ~IsAuthenticated(u) THEN Unauthorized(r)
    ELSE IF ~is_valid(p, FALSE) THEN BadRequest(r, FALSE)
    ELSE /\ perform_create(u, p)
         /\ Answer(r, 201, Serialize("create", recipes'[nextRecipeId]), TRUE)

\* GET recipe/{pk}/ : RecipeViewSet.retrieve
RecipeRetrieve(u, pk) ==
    LET r == Request("retrieve", u, pk, NoData) IN
    IF ~IsAuthenticated(u) THEN Unauthorized(r)
    ELSE IF ~InQuery(get_queryset(u), pk) THEN NotFound(r)
    ELSE /\ Answer(r, 200, Serialize("retrieve", recipes[pk]), TRUE)
         /\ UNCHANGED <<recipes, tags, ingredients, nextRecipeId>>

\* Model.save() of a fetched instance writes the columns of the row, not its link rows.
SavedRow(row, instance) ==
    [k \in DOMAIN row |-> IF k \in {"tags", "ingredients"} THEN row[k] ELSE instance[k]]

\* ModelViewSet.perform_update: serializer.save() on the instance get_object() fetched
perform_update(pk, instance, p) ==
    /\ recipes' = [recipes EXCEPT
                      ![pk] = SavedRow(@, Serializer_update(instance, validated_data(p)))]
    /\ UNCHANGED <<tags, ingredients, nextRecipeId>>

\* PUT (partial = FALSE) and PATCH (partial = TRUE) recipe/{pk}/
RecipeUpdate(u, pk, p, partial) ==
    LET action == IF partial THEN "partial_update" ELSE "update"
        r == Request(action, u, pk, p) IN
    IF ~IsAuthenticated(u) THEN Unauthorized(r)
    ELSE IF ~InQuery(get_queryset(u), pk) THEN NotFound(r)
    ELSE IF ~is_valid(p, partial) THEN BadRequest(r, TRUE)
    ELSE /\ perform_update(pk, recipes[pk], p)
         /\ Answer(r, 200, Serialize(action, recipes'[pk]), TRUE)

\* Variant: the delete cascades to the tags linked to the recipe.
perform_destroy_cascade(pk) ==
    /\ recipes' = [i \in DOMAIN recipes \ {pk} |->
                      [recipes[i] EXCEPT !.tags = @ \ recipes[pk].tags]]
    /\ tags' = [i \in DOMAIN tags \ recipes[pk].tags |-> tags[i]]
    /\ UNCHANGED <<ingredients, nextRecipeId>>

\* ModelViewSet.perform_destroy: instance.delete() removes the row and its link rows.
perform_destroy(pk) ==
    /\ recipes' = Remove(recipes, pk)
    /\ UNCHANGED <<tags, ingredients, nextRecipeId>>

\* DELETE recipe/{pk}/ : RecipeViewSet.destroy
RecipeDestroy(u, pk) ==
    LET r == Request("destroy", u, pk, NoData) IN
    IF ~IsAuthenticated(u) THEN Unauthorized(r)
    ELSE IF ~InQuery(get_queryset(u), pk) THEN NotFound(r)
    ELSE /\ perform_destroy(pk)
         /\ Answer(r, 204, NoData, TRUE)

\* GET tags/ : TagViewSet.list
TagList(u) ==
    LET r == Request("tag-list", u, 0, NoData) IN
    IF ~IsAuthenticated(u) THEN Unauthorized(r)
    ELSE \E q \in Tag_get_queryset(u) :
         /\ Answer(r, 200, [i \in 1..Len(q) |-> TagSerializer(tags[q[i]], q[i])], TRUE)
         /\ UNCHANGED <<recipes, tags, ingredients, nextRecipeId>>

TagOwned(u, pk) == pk \in DOMAIN tags /\ tags[pk].user = u

\* TagSerializer.is_valid: name is required unless the update is partial.
Tag_is_valid(p, partial) == partial \/ "name" \in DOMAIN p

\* Variant: a name in use by another tag of the owner is refused.
TagUpdate_unique(u, pk, p, partial) ==
    LET action == IF partial THEN "tag-partial_update" ELSE "tag-update"
        r == Request(action, u, pk, p) IN
    IF ~IsAuthenticated(u) THEN Unauthorized(r)
    ELSE IF ~TagOwned(u, pk) THEN NotFound(r)
    ELSE IF ~Tag_is_valid(p, partial) THEN BadRequest(r, TRUE)
    ELSE IF "name" \in DOMAIN p /\ \E i \in DOMAIN tags \ {pk} :
                                      tags[i].user = u /\ tags[i].name = p.name
    THEN BadRequest(r, TRUE)
    ELSE /\ tags' = [tags EXCEPT ![pk].name = IF "name" \in DOMAIN p THEN p.name ELSE @]
         /\ UNCHANGED <<recipes, ingredients, nextRecipeId>>
         /\ Answer(r, 200, TagSerializer(tags'[pk], pk), TRUE)

\* PUT (partial = FALSE) and PATCH (partial = TRUE) tags/{pk}/ :
\* TagViewSet.update and partial_update, from UpdateModelMixin
TagUpdate(u, pk, p, partial) ==
    LET action == IF partial THEN "tag-partial_update" ELSE "tag-update"
        r == Request(action, u, pk, p) IN
    IF ~IsAuthenticated(u) THEN Unauthorized(r)
    ELSE IF ~TagOwned(u, pk) THEN NotFound(r)
    ELSE IF ~Tag_is_valid(p, partial) THEN BadRequest(r, TRUE)
    ELSE /\ tags' = [tags EXCEPT ![pk].name = IF "name" \in DOMAIN p THEN p.name ELSE @]
         /\ UNCHANGED <<recipes, ingredients, nextRecipeId>>
         /\ Answer(r, 200, TagSerializer(tags'[pk], pk), TRUE)

\* DELETE tags/{pk}/ : TagViewSet.destroy; the link rows of the tag go with it.
TagDestroy(u, pk) ==
    LET r == Request("tag-destroy", u, pk, NoData) IN
    IF ~IsAuthenticated(u) THEN Unauthorized(r)
    ELSE IF ~TagOwned(u, pk) THEN NotFound(r)
    ELSE /\ tags' = Remove(tags, pk)
         /\ recipes' = [i \in DOMAIN recipes |-> [recipes[i] EXCEPT !.tags = @ \ {pk}]]
         /\ UNCHANGED <<ingredients, nextRecipeId>>
         /\ Answer(r, 204, NoData, TRUE)

\* recipe/urls.py routes "recipe/" and "tags/" only: a request for the
\* ingredient list matches no route and is answered by the URL resolver.
IngredientList(u) ==
    /\ Answer(Request("ingredient-list", u, 0, NoData), 404, "Not Found", FALSE)
    /\ UNCHANGED <<recipes, tags, ingredients, nextRecipeId>>

\* PATCH and DELETE ingredients/{pk}/ : no route either.
IngredientDetail(u, pk, action, p) ==
    /\ Answer(Request(action, u, pk, p), 404, "Not Found", FALSE)
    /\ UNCHANGED <<recipes, tags, ingredients, nextRecipeId>>

\* recipe/urls.py: the router of RecipeViewSet has the list and detail routes
\* only, the view set defining no extra action: an image upload to
\* recipe/{pk}/upload-image/ matches no route.
UploadImage(u, pk, file) ==
    /\ Answer(Request("upload-image", u, pk, [image |-> file]), 404, "Not Found", FALSE)
    /\ UNCHANGED <<recipes, tags, ingredients, nextRecipeId>>

----------------------------------------------------------------------------
(* Two request handlers of the server working at the same time: each recipe *)
(* write is validated first and saved in a later step, with no lock and no  *)
(* transaction around the two.                                              *)

Workers == {"w1", "w2"}
Idle == [pc |-> "idle", req |-> Request("none", AnonymousUser, 0, NoData), instance |-> NoData]
Pending == Cardinality({w \in Workers : inflight[w].pc = "validated"})

\* dispatch up to serializer.is_valid(): errors are answered at once.
Receive(w, u, action, pk, p) ==
    LET r == Request(action, u, pk, p) IN
    /\ inflight[w].pc # "validated"
    /\ nops + Pending < MaxOps
    /\ IF ~IsAuthenticated(u)
       THEN Reply(r, 401, "Authentication credentials were not provided.", FALSE)
            /\ inflight' = [inflight EXCEPT ![w] = Idle]
       ELSE IF action # "create" /\ ~InQuery(get_queryset(u), pk)
       THEN Reply(r, 404, "Not found.", TRUE)
            /\ inflight' = [inflight EXCEPT ![w] = Idle]
       ELSE IF ~is_valid(p, action = "partial_update")
       THEN Reply(r, 400, "This field is required.", action # "create")
            /\ inflight' = [inflight EXCEPT ![w] = Idle]
       ELSE /\ inflight' = [inflight EXCEPT ![w] =
                    [pc |-> "validated", req |-> r,
                     instance |-> IF action = "create" THEN NoData ELSE recipes[pk]]]
            /\ UNCHANGED <<req, resp, accessed, nops, storage, cmd, accounts>>
    /\ UNCHANGED <<recipes, tags, ingredients, nextRecipeId>>

\* perform_create / perform_update of the validated write, and its response.
Save(w) ==
    LET r == inflight[w].req IN
    /\ inflight[w].pc = "validated"
    /\ inflight' = [inflight EXCEPT ![w].pc = "saved"]
    /\ IF r.action = "create"
       THEN /\ perform_create(r.user, r.data)
            /\ Reply(r, 201, Serialize(r.action, recipes'[nextRecipeId]), TRUE)
       ELSE /\ perform_update(r.pk, inflight[w].instance, r.data)
            /\ Reply(r, 200, Serialize(r.action, recipes'[r.pk]), TRUE)

----------------------------------------------------------------------------
(* core/management/commands/wait_for_db.py *)

\* Number of checks that find the database unavailable in a run.
MaxChecks == 3

\* except (PsycopgOperationalError, OperationalError)
OperationalErrors == {"PsycopgOperationalError", "OperationalError"}

\* What self.check(databases=["default"]) may do: return when the database is
\* ready, else raise one of the two errors or another exception.
Outcomes(ready) == IF ready THEN {"ok"} ELSE OperationalErrors \cup {"Exception"}

\* log: the outcome of each check made; out: the lines written to stdout;
\* ready: whether the database accepts connections.
CmdInit == [pc |-> "start", db_up |-> FALSE, log |-> <<>>, out |-> <<>>, ready |-> FALSE]

Terminated == cmd.pc \in {"done", "raised"}

\* handle(): the first write and db_up = False
handle_start ==
    /\ cmd.pc = "start"
    /\ cmd' = [cmd EXCEPT !.pc = "check", !.db_up = FALSE,
                          !.out = Append(@, "Waiting for database...")]
    /\ UNCHANGED <<api, accounts>>

\* Variant: only Django's OperationalError is caught.
handle_check_django(outcome) ==
    /\ cmd.pc = "check"
    /\ ~cmd.db_up
    /\ outcome \in Outcomes(cmd.ready)
    /\ outcome = "ok" \/ Len(cmd.log) < MaxChecks
    /\ cmd' = IF outcome = "ok"
              THEN [cmd EXCEPT !.pc = "done", !.db_up = TRUE, !.log = Append(@, outcome),
                               !.out = Append(@, "Database available!")]
              ELSE IF outcome = "OperationalError"
              THEN [cmd EXCEPT !.pc = "sleep", !.log = Append(@, outcome),
                               !.out = Append(@, "Database unavailable, waiting for 1 second...")]
              ELSE [cmd EXCEPT !.pc = "raised", !.log = Append(@, outcome)]
    /\ UNCHANGED <<api, accounts>>

\* One turn of "while db_up is False": the check, and what follows it. A check
\* that returns ends the loop and the last line is written; one of the two
\* caught errors is reported; any other exception leaves handle().
handle_check(outcome) ==
    /\ cmd.pc = "check"
    /\ ~cmd.db_up
    /\ outcome \in Outcomes(cmd.ready)
    /\ outcome = "ok" \/ Len(cmd.log) < MaxChecks
    /\ cmd' = IF outcome = "ok"
              THEN [cmd EXCEPT !.pc = "done", !.db_up = TRUE, !.log = Append(@, outcome),
                               !.out = Append(@, "Database available!")]
              ELSE IF outcome \in OperationalErrors
              THEN [cmd EXCEPT !.pc = "sleep", !.log = Append(@, outcome),
                               !.out = Append(@, "Database unavailable, waiting for 1 second...")]
              ELSE [cmd EXCEPT !.pc = "raised", !.log = Append(@, outcome)]
    /\ UNCHANGED <<api, accounts>>

\* time.sleep(1) returns
handle_sleep ==
    /\ cmd.pc = "sleep"
    /\ cmd' = [cmd EXCEPT !.pc = "check"]
    /\ UNCHANGED <<api, accounts>>

\* The database comes up or goes down while the command waits.
DatabaseChanges ==
    /\ ~Terminated
    /\ cmd' = [cmd EXCEPT !.ready = ~@]
    /\ UNCHANGED <<api, accounts>>

handle == handle_start \/ (\E o \in Outcomes(cmd.ready) : handle_check(o)) \/ handle_sleep

----------------------------------------------------------------------------
(* core.models: the user manager *)

\* Longest email tried, and number of users created in a run.
MaxEmailLen == 3
MaxUsers == 1

\* An email is a sequence of characters.
Alphabet == {"T", "E", "e", "@"}
Lower(c) == IF c = "T" THEN "t" ELSE IF c = "E" THEN "e" ELSE c
LowerSeq(q) == [i \in 1..Len(q) |-> Lower(q[i])]
Emails == UNION {[1..n -> Alphabet] : n \in 0..MaxEmailLen}

\* emails: the email column of the user table; call, result, stored: the
\* email of the last create_user call, how it ended and the email it stored.
AccountsInit == [emails |-> {}, call |-> <<>>, result |-> "none", stored |-> <<>>]

\* BaseUserManager.normalize_email: the part after the last "@" in lower case.
normalize_email(email) ==
    LET ats == {i \in 1..Len(email) : email[i] = "@"} IN
    IF ats = {} THEN email
    ELSE LET k == SetMax(ats) IN
         SubSeq(email, 1, k - 1) \o <<"@">> \o LowerSeq(SubSeq(email, k + 1, Len(email)))

\* Variant: the whole email in lower case.
create_user_lower(email) ==
    /\ Cardinality(accounts.emails) < MaxUsers
    /\ accounts' =
          IF email = <<>>
          THEN [accounts EXCEPT !.call = email, !.result = "ValueError", !.stored = <<>>]
          ELSE IF LowerSeq(email) \in accounts.emails
          THEN [accounts EXCEPT !.call = email, !.result = "IntegrityError", !.stored = <<>>]
          ELSE [emails |-> accounts.emails \cup {LowerSeq(email)}, call |-> email,
                result |-> "created", stored |-> LowerSeq(email)]
    /\ UNCHANGED <<api, cmd>>

\* UserManager.create_user(email, password): ValueError without an email, else
\* one row with the normalized email, which the table keeps unique.
create_user(email) ==
    /\ Cardinality(accounts.emails) < MaxUsers
    /\ accounts' =
          IF email = <<>>
          THEN [accounts EXCEPT !.call = email, !.result = "ValueError", !.stored = <<>>]
          ELSE IF normalize_email(email) \in accounts.emails
          THEN [accounts EXCEPT !.call = email, !.result = "IntegrityError", !.stored = <<>>]
          ELSE [emails |-> accounts.emails \cup {normalize_email(email)}, call |-> email,
                result |-> "created", stored |-> normalize_email(email)]
    /\ UNCHANGED <<api, cmd>>

----------------------------------------------------------------------------
(* Request payloads *)

Merge(a, b) == [k \in DOMAIN a \cup DOMAIN b |-> IF k \in DOMAIN b THEN b[k] ELSE a[k]]
Name(n) == [name |-> n]

P_minimal == [title |-> "Chocolate cheesecake", time_minutes |-> 30, price |-> 530]
P_full ==
    [title |-> "New title", time_minutes |-> 30, price |-> 530,
     description |-> "New description", link |-> "https://sample.com/new-recipe"]
P_title == [title |-> "New title"]
P_user == [user |-> U2]
P_tags == [tags |-> <<Name("vegan"), Name("dessert")>>]
P_tags_twice == [tags |-> <<Name("indian"), Name("indian")>>]
P_tags_lunch == [tags |-> <<Name("lunch")>>]
P_tags_empty == [tags |-> <<>>]
P_tags_malformed == [tags |-> <<Name("dessert"), [label |-> "dessert"]>>]
P_ingredients == [ingredients |-> <<Name("Tortilla"), Name("Salt")>>]
P_ingredients_empty == [ingredients |-> <<>>]

CreatePayloads ==
    {P_minimal, P_full, P_title, Merge(P_minimal, P_user)}
    \cup {Merge(P_minimal, x) : x \in {P_tags, P_tags_twice, P_tags_malformed, P_ingredients}}

UpdatePayloads ==
    {P_full, Merge(P_full, P_user), P_title, P_user, P_tags, P_tags_lunch, P_tags_empty,
     P_tags_malformed, P_ingredients_empty}

TagPayloads == {Name("lunch"), Name("Vegetarian"), NoData}

\* Uploads: a JPEG file and a string that is no image.
IngredientRequests == {<<"ingredient-partial_update", Name("Apple Cider Vinegar")>>,
                       <<"ingredient-destroy", NoData>>}
JpegFile == "image.jpg"
Uploads == {JpegFile, "notimage"}

----------------------------------------------------------------------------
(* Initial rows, as the ORM leaves them before the first request *)

SampleRecipe(id, u, t, g) ==
    [id |-> id, user |-> u, title |-> "Sample recipe", time_minutes |-> 10, price |-> 535,
     description |-> "Sample description", link |-> "https://sample.com/recipe",
     image |-> NoImage, tags |-> t, ingredients |-> g]

Init ==
    /\ tags = (1 :> [user |-> U1, name |-> "vegan"]) @@ (2 :> [user |-> U1, name |-> "lunch"])
               @@ (3 :> [user |-> U2, name |-> "vegan"])
    /\ ingredients = (1 :> [user |-> U1, name |-> "Tortilla"]) @@ (2 :> [user |-> U1, name |-> "Meat"])
                      @@ (3 :> [user |-> U2, name |-> "Salt"])
    /\ \E t \in {{1}, {1, 2}} :
          recipes = (1 :> SampleRecipe(1, U1, t, {1})) @@ (2 :> SampleRecipe(2, U2, {3}, {3}))
                    @@ (3 :> SampleRecipe(3, U1, {1}, {1, 2}))
    /\ nextRecipeId = 4
    /\ req = Request("none", AnonymousUser, 0, NoData)
    /\ resp = Response(0, NoData)
    /\ accessed = FALSE
    /\ inflight = [w \in Workers |-> Idle]
    /\ nops = 0
    /\ storage = {}
    /\ cmd = CmdInit
    /\ accounts = AccountsInit

Pks == DOMAIN recipes \cup {nextRecipeId}
TagPks == DOMAIN tags

\* The identities that may send a further request.
Clients == IF nops < MaxOps THEN Identities ELSE {}

Next ==
    \/ \E u \in Clients : RecipeList(u)
    \/ \E u \in Clients, p \in CreatePayloads : RecipeCreate(u, p)
    \/ \E u \in Clients, pk \in Pks : RecipeRetrieve(u, pk)
    \/ \E u \in Clients, pk \in Pks, p \in UpdatePayloads, partial \in BOOLEAN :
          RecipeUpdate(u, pk, p, partial)
    \/ \E u \in Clients, pk \in Pks : RecipeDestroy(u, pk)
    \/ \E u \in Clients : TagList(u)
    \/ \E u \in Clients, pk \in TagPks, p \in TagPayloads, partial \in BOOLEAN :
          TagUpdate(u, pk, p, partial)
    \/ \E u \in Clients, pk \in TagPks : TagDestroy(u, pk)
    \/ \E u \in Clients : IngredientList(u)
    \/ \E u \in Clients, pk \in DOMAIN ingredients, q \in IngredientRequests :
          IngredientDetail(u, pk, q[1], q[2])
    \/ \E u \in Clients, pk \in DOMAIN recipes, file \in Uploads : UploadImage(u, pk, file)

Spec == Init /\ [][Next]_vars

ConcurrentCreates == {Merge(P_minimal, x) : x \in {P_tags, P_tags_twice}} \cup {P_title}
ConcurrentUpdates == {P_title, P_tags, P_tags_lunch}

NextConcurrent ==
    \E w \in Workers :
        \/ \E u \in Identities, p \in ConcurrentCreates : Receive(w, u, "create", 0, p)
        \/ \E u \in Identities, pk \in Pks, p \in ConcurrentUpdates :
              Receive(w, u, "partial_update", pk, p)
        \/ Save(w)

SpecConcurrent == Init /\ [][NextConcurrent]_vars

NextWait ==
    \/ handle_start
    \/ \E o \in OperationalErrors \cup {"ok", "Exception"} : handle_check(o)
    \/ handle_sleep
    \/ DatabaseChanges

NextUsers == \E email \in Emails : create_user(email)

SpecUsers == Init /\ [][NextUsers]_vars

\* The command is a running process: it takes its next step when it has one.
SpecWait == Init /\ [][NextWait]_vars /\ WF_vars(handle)

----------------------------------------------------------------------------
(* Properties *)

Authenticated == req'.user \in Users
OnRecipe == req'.pk \in DOMAIN recipes
OwnRecipe == OnRecipe /\ recipes[req'.pk].user = req'.user
OthersRecipe == OnRecipe /\ recipes[req'.pk].user # req'.user

Owned(table, u) == {i \in DOMAIN table : table[i].user = u}
OwnedNames(table, u) == {table[i].name : i \in Owned(table, u)}

\* C1: a detail, update or delete request by an authenticated user on a recipe
\* of another user is answered 404 and leaves that recipe as it was.
C1_OtherOwnerNotFound ==
    [][(/\ req'.action \in {"retrieve", "update", "partial_update", "destroy"}
        /\ Authenticated
        /\ OthersRecipe)
       => /\ resp'.status = 404
          /\ req'.pk \in DOMAIN recipes'
          /\ recipes'[req'.pk] = recipes[req'.pk]]_vars

C1_Witness ==
    /\ req.action = "destroy"
    /\ req.user = U1
    /\ req.pk \in DOMAIN recipes
    /\ recipes[req.pk].user = U2
    /\ resp.status = 404

IsList(status, data) == status = 200 /\ DOMAIN data = 1..Len(data)

\* C2: a list request by an authenticated owner returns exactly the owner's
\* rows, recipes by descending id, tags and ingredients by descending name.
C2_ListOwnedOrdered ==
    /\ (req.action = "list" /\ req.user \in Users) =>
          /\ IsList(resp.status, resp.data)
          /\ {resp.data[i].id : i \in 1..Len(resp.data)} = Owned(recipes, req.user)
          /\ Len(resp.data) = Cardinality(Owned(recipes, req.user))
          /\ \A i, j \in 1..Len(resp.data) : i < j => resp.data[i].id > resp.data[j].id
    /\ (req.action = "tag-list" /\ req.user \in Users) =>
          /\ IsList(resp.status, resp.data)
          /\ {resp.data[i].id : i \in 1..Len(resp.data)} = Owned(tags, req.user)
          /\ Len(resp.data) = Cardinality(Owned(tags, req.user))
          /\ \A i, j \in 1..Len(resp.data) :
                i < j => NameRank(resp.data[i].name) >= NameRank(resp.data[j].name)
    /\ (req.action = "ingredient-list" /\ req.user \in Users) =>
          /\ IsList(resp.status, resp.data)
          /\ {resp.data[i].id : i \in 1..Len(resp.data)} = Owned(ingredients, req.user)
          /\ Len(resp.data) = Cardinality(Owned(ingredients, req.user))
          /\ \A i, j \in 1..Len(resp.data) :
                i < j => NameRank(resp.data[i].name) >= NameRank(resp.data[j].name)

RecipeWrite == req'.action \in {"create", "update", "partial_update"}
Succeeded == resp'.status \in {200, 201}

\* The payload's list for a field, when it has one whose items all carry a name.
HasList(f) == f \in DOMAIN req'.data /\ WellFormed(req'.data[f])
NewNames(table, f) == Names(req'.data[f]) \ OwnedNames(table, req'.user)

\* C3: a successful recipe write whose tag (ingredient) list has k names the
\* requester does not own yet adds exactly k Tag (Ingredient) rows for that owner.
C3_UpsertAddsNewNamesOnly ==
    [][(RecipeWrite /\ Authenticated /\ Succeeded)
       => /\ HasList("tags") =>
                Cardinality(Owned(tags', req'.user))
                    = Cardinality(Owned(tags, req'.user)) + Cardinality(NewNames(tags, "tags"))
          /\ HasList("ingredients") =>
                Cardinality(Owned(ingredients', req'.user))
                    = Cardinality(Owned(ingredients, req'.user))
                      + Cardinality(NewNames(ingredients, "ingredients"))]_vars

\* The rows of the requester, after the write, that carry a name of the list.
Resolved(table, f) == {i \in Owned(table, req'.user) : table[i].name \in Names(req'.data[f])}
ExactlyResolved(linked, table, f) ==
    /\ linked \subseteq Resolved(table, f)
    /\ \A n \in Names(req'.data[f]) : \E i \in linked : table[i].name = n

Carries(r, u, n) ==
    /\ r.user = u
    /\ r.action \in {"create", "update", "partial_update"}
    /\ "tags" \in DOMAIN r.data
    /\ n \in Names(r.data.tags)

\* Both handlers hold a recipe write of owner u carrying tag name n, at one
\* of the given positions.
BothCarry(u, n, pcs) ==
    \A w \in Workers : inflight[w].pc \in pcs /\ Carries(inflight[w].req, u, n)
RowsNamed(u, n) == {t \in Owned(tags, u) : tags[t].name = n}

C5_UpdateReplacesLinks ==
    [][(req'.action \in {"update", "partial_update"} /\ Authenticated /\ resp'.status = 200)
       => /\ HasList("tags") => ExactlyResolved(recipes'[req'.pk].tags, tags', "tags")
          /\ HasList("ingredients") =>
                ExactlyResolved(recipes'[req'.pk].ingredients, ingredients', "ingredients")
          /\ DOMAIN tags \subseteq DOMAIN tags'
          /\ DOMAIN ingredients \subseteq DOMAIN ingredients']_vars

\* C6: a successful PATCH leaves every field of the recipe whose key is not
\* in the payload, its tag and ingredient links included, as it was.
C6_PatchKeepsAbsentFields ==
    [][(req'.action = "partial_update" /\ Authenticated /\ resp'.status = 200)
       => /\ \A k \in DOMAIN recipes[req'.pk] \ DOMAIN req'.data :
                recipes'[req'.pk][k] = recipes[req'.pk][k]
          /\ \A i \in DOMAIN recipes \ {req'.pk} :
                i \in DOMAIN recipes' /\ recipes'[i] = recipes[i]]_vars

C6_Witness ==
    /\ req.action = "partial_update"
    /\ req.data = P_title
    /\ resp.status = 200
    /\ recipes[req.pk].title = "New title"
    /\ recipes[req.pk].link = "https://sample.com/recipe"
    /\ recipes[req.pk].tags # {}
    /\ recipes[req.pk].ingredients # {}

Malformed(f) == f \in DOMAIN req'.data /\ ~WellFormed(req'.data[f])

\* C7: a recipe write with a nested item that has no name is answered 400
\* and changes no table.
C7_MalformedItemRejected ==
    [][(/\ RecipeWrite
        /\ Authenticated
        /\ req'.action = "create" \/ OwnRecipe
        /\ Malformed("tags") \/ Malformed("ingredients"))
       => /\ resp'.status = 400
          /\ recipes' = recipes /\ tags' = tags /\ ingredients' = ingredients]_vars

\* C8: a request without an authenticated identity is answered 401 without
\* reaching the repository and changes no table.
C8_UnauthenticatedRejected ==
    [][(req'.user \notin Users)
       => /\ resp'.status = 401
          /\ ~accessed'
          /\ recipes' = recipes /\ tags' = tags /\ ingredients' = ingredients]_vars

\* C9: a recipe created by a request is owned by the requester, and no
\* request changes the owner of an existing recipe.
C9_OwnerFixed ==
    [][/\ \A i \in DOMAIN recipes \cap DOMAIN recipes' : recipes'[i].user = recipes[i].user
       /\ \A i \in DOMAIN recipes' \ DOMAIN recipes :
             recipes'[i].user = req'.user /\ req'.user \in Users]_vars

C9_Witness ==
    /\ req.action \in {"update", "partial_update"}
    /\ "user" \in DOMAIN req.data
    /\ req.data.user # req.user
    /\ resp.status = 200
    /\ recipes[req.pk].user = req.user

\* C10: a delete of a recipe by its owner is answered 204, removes that row
\* with its links, and leaves every tag, ingredient and other recipe as it was.
C10_DeleteKeepsTags ==
    [][(req'.action = "destroy" /\ Authenticated /\ OwnRecipe)
       => /\ resp'.status = 204
          /\ req'.pk \notin DOMAIN recipes'
          /\ tags' = tags
          /\ ingredients' = ingredients
          /\ \A i \in DOMAIN recipes \ {req'.pk} :
                i \in DOMAIN recipes' /\ recipes'[i] = recipes[i]]_vars

C10_Witness ==
    /\ req.action = "destroy"
    /\ resp.status = 204
    /\ req.pk \notin DOMAIN recipes
    /\ \E i \in DOMAIN recipes :
          /\ recipes[i].user = req.user
          /\ recipes[i].tags # {} /\ recipes[i].tags \subseteq DOMAIN tags
          /\ recipes[i].ingredients # {} /\ recipes[i].ingredients \subseteq DOMAIN ingredients

Referenced == {recipes[i].image : i \in DOMAIN recipes} \ {NoImage}

\* C11: every stored image is the image of exactly one recipe, and an upload
\* of an image by the owner of a recipe is accepted and becomes its image.
C11_ImagesReferencedOnce ==
    /\ \A f \in storage : Cardinality({i \in DOMAIN recipes : recipes[i].image = f}) = 1
    /\ Referenced \subseteq storage
    /\ (/\ req.action = "upload-image"
        /\ req.user \in Users
        /\ req.pk \in DOMAIN recipes
        /\ recipes[req.pk].user = req.user
        /\ req.data.image = JpegFile)
       => /\ resp.status = 200
          /\ recipes[req.pk].image # NoImage
          /\ recipes[req.pk].image \in storage

Raised(i) == cmd.log[i] \in OperationalErrors
Checks == Len(cmd.log)

WaitsWhileUnavailable ==
    /\ (Checks > 0 /\ Raised(Checks)) => cmd.pc \in {"sleep", "check"}
    /\ cmd.pc = "sleep" => Raised(Checks)
    /\ Terminated => \E i \in 1..Checks : ~Raised(i)

ReportsAfterSuccess ==
    /\ (\E i \in 1..Len(cmd.out) : cmd.out[i] = "Database available!")
          <=> (cmd.pc = "done")
    /\ cmd.pc = "done" =>
          /\ cmd.db_up
          /\ cmd.log[Checks] = "ok"
          /\ \A i \in 1..(Checks - 1) : Raised(i)
          /\ Checks = Cardinality({i \in 1..Checks : Raised(i)}) + 1

\* C12: the command checks again after each check that raised one of the two
\* operational errors, reports the database available only after a check that
\* returned, having made one check more than the failures before it, does not
\* end while every check raises an operational error, and ends when the
\* database becomes available for good.
C12_WaitsUntilAvailable ==
    /\ [](WaitsWhileUnavailable /\ ReportsAfterSuccess)
    /\ (<>[]cmd.ready) => <>Terminated

C12_Witness ==
    /\ cmd.pc = "done"
    /\ cmd.log = <<"PsycopgOperationalError", "OperationalError", "ok">>
    /\ cmd.out[Len(cmd.out)] = "Database available!"

\* The characters after the last "@" of the email, if it has one.
InDomain(email, i) == \E k \in 1..(i - 1) : email[k] = "@" /\ \A j \in (k + 1)..Len(email) : email[j] # "@"

\* C13: a created user's stored email is the given one with the characters of
\* its domain part in lower case and the others unchanged; create_user with an
\* empty email raises an error and stores no user.
C13_EmailNormalized ==
    [][/\ (accounts'.result = "created") =>
            /\ Len(accounts'.stored) = Len(accounts'.call)
            /\ \A i \in 1..Len(accounts'.call) :
                  accounts'.stored[i] = IF InDomain(accounts'.call, i)
                                        THEN Lower(accounts'.call[i]) ELSE accounts'.call[i]
            /\ accounts'.emails = accounts.emails \cup {accounts'.stored}
       /\ (accounts'.call = <<>>) =>
            /\ accounts'.result \in {"ValueError", "none"}
            /\ accounts'.emails = accounts.emails]_vars

C13_Witness ==
    /\ accounts.result = "created"
    /\ accounts.call = <<"T", "@", "E">>
    /\ accounts.stored = <<"T", "@", "e">>
    /\ accounts.emails = {<<"T", "@", "e">>}

\* The update requests of the tag endpoint: PATCH and PUT.
TagUpdates == {"tag-partial_update", "tag-update"}

\* An update (upds) or delete (del) request on a row of a table, answered as
\* the owner-scoped repository answers it: NotFound and the row as it was for
\* another user, 200 with the new name or 204 with the row gone for the owner.
ScopedWrite(table, after, upds, del) ==
    (/\ req'.action \in upds \cup {del}
     /\ Authenticated
     /\ req'.pk \in DOMAIN table
     /\ req'.action \in upds => "name" \in DOMAIN req'.data)
    => IF table[req'.pk].user # req'.user
       THEN /\ resp'.status = 404
            /\ req'.pk \in DOMAIN after
            /\ after[req'.pk] = table[req'.pk]
       ELSE IF req'.action \in upds
       THEN /\ resp'.status = 200
            /\ req'.pk \in DOMAIN after
            /\ after[req'.pk].name = req'.data.name
       ELSE /\ resp'.status = 204
            /\ req'.pk \notin DOMAIN after

\* C14: an update or delete of a tag or ingredient by a user who does not own
\* it is answered NotFound and leaves the row unchanged; by its owner it
\* succeeds, 200 with the new name stored or 204 with the row removed.
C14_TagIngredientWriteScoped ==
    [][/\ ScopedWrite(tags, tags', TagUpdates, "tag-destroy")
       /\ ScopedWrite(ingredients, ingredients',
                      {"ingredient-partial_update"}, "ingredient-destroy")]_vars

\* Every tag and ingredient linked to a recipe is a row of the recipe's owner.
LinksOwned(rs, ts, gs) ==
    \A i \in DOMAIN rs :
        /\ \A t \in rs[i].tags : t \in DOMAIN ts /\ ts[t].user = rs[i].user
        /\ \A g \in rs[i].ingredients : g \in DOMAIN gs /\ gs[g].user = rs[i].user

\* The recipe a write request is about.
Target == IF req'.action = "create" THEN resp'.data.id ELSE req'.pk
OthersNames(table, u) == {table[i].name : i \in DOMAIN table \ Owned(table, u)}

\* C15: every tag and ingredient linked to a recipe has the recipe's owner,
\* and a successful recipe write naming a tag that another user owns links
\* the recipe to a row of that name owned by the requester.
C15_LinkedRowsShareOwner ==
    [][/\ LinksOwned(recipes', tags', ingredients')
       /\ (RecipeWrite /\ Authenticated /\ Succeeded /\ HasList("tags"))
          => \A n \in Names(req'.data.tags) \cap OthersNames(tags, req'.user) :
                \E t \in recipes'[Target].tags :
                    tags'[t].name = n /\ tags'[t].user = req'.user]_vars

\* No owner has two Tag rows with the same name.
NoDuplicateTags(ts) ==
    \A i, j \in DOMAIN ts : (ts[i].user = ts[j].user /\ ts[i].name = ts[j].name) => i = j

\* C16: after any sequence of operations executed one at a time, no owner
\* has two Tag rows with the same name, a rename to a name in use included.
C16_NoDuplicateTagNames == NoDuplicateTags(tags)

TagRename ==
    /\ req'.action \in TagUpdates
    /\ Authenticated
    /\ TagOwned(req'.user, req'.pk)
    /\ "name" \in DOMAIN req'.data

\* C16, as the code has it: every operation but a tag rename keeps an owner's
\* tag names distinct; a rename by the owner is not checked against the
\* owner's other tags: it is answered 200, stores the name and changes no
\* other row, also when another tag of the owner has that name.
C16_OnlyRenameDuplicates ==
    [][/\ (~TagRename /\ NoDuplicateTags(tags)) => NoDuplicateTags(tags')
       /\ TagRename =>
             /\ resp'.status = 200
             /\ DOMAIN tags' = DOMAIN tags
             /\ tags'[req'.pk] = [tags[req'.pk] EXCEPT !.name = req'.data.name]
             /\ \A i \in DOMAIN tags \ {req'.pk} : tags'[i] = tags[i]]_vars

C16_Witness ==
    /\ req.action \in TagUpdates
    /\ "name" \in DOMAIN req.data
    /\ resp.status = 200
    /\ req.pk \in DOMAIN tags
    /\ \E i \in DOMAIN tags \ {req.pk} :
          tags[i].user = req.user /\ tags[i].name = req.data.name /\ tags[req.pk] = tags[i]

====
